---- MODULE Spec2Model ----
(***************************************************************************)
(* Model of src/working_api.js: the POST / handler of the face-recognition *)
(* API, its image fetcher with retries (loadImageWithRetry), the           *)
(* reference-set builder (processSingleFace, loadLabeledImages) and the    *)
(* model initialisation (initializeModels).                                *)
(*                                                                         *)
(* JavaScript runs the handler on one event loop: a step of the model is   *)
(* one event (a request arriving, a model load, a fetch attempt, a timer   *)
(* or a detection settling) together with every promise continuation that *)
(* runs before the next event.                                             *)
(*                                                                         *)
(* Strings that the code tests with /^https?:\/\/.+/ are records           *)
(* [scheme, rest]: "http://ok" is [scheme |-> "http", rest |-> "ok"],      *)
(* "not-a-url" is [scheme |-> "", rest |-> "not-a-url"].                   *)
(* Distances and descriptors are fixed-point numbers with five decimals:   *)
(* 60000 stands for 0.6.                                                   *)
(***************************************************************************)
EXTENDS Integers, Sequences, FiniteSets, TLC

\* ------------------------------------------------------------ constants

MAX_RETRIES == 3

RETRY_DELAY == 1000

FACE_MATCHER_THRESHOLD == 60000

\* 1.0 in the fixed-point unit of distances.
One == 10^5

\* ------------------------------------------------------------ bounds

\* Longest dataset array of a request body.
MaxDataset == 3

\* Number of requests the server receives.
NumReq == 2

Req == 1..NumReq

Idx == 0..MaxDataset

Nets == {"faceRecognitionNet", "faceLandmark68Net", "ssdMobilenetv1"}

Outcomes == {"ok", "net", "http", "decode"}

\* ------------------------------------------------------------ JS values

EmptyStr == [scheme |-> "", rest |-> ""]

Undefined == [t |-> "undefined", n |-> 0, s |-> EmptyStr]

Num(k) == [t |-> "number", n |-> k, s |-> EmptyStr]

Str(scheme, rest) == [t |-> "string", n |-> 0, s |-> [scheme |-> scheme, rest |-> rest]]

\* !v is false
Truthy(v) ==
    \/ v.t = "number" /\ v.n # 0
    \/ v.t = "string" /\ v.s # EmptyStr

\* String(v), as RegExp.prototype.test and fetch coerce their argument.
ToStr(v) ==
    CASE v.t = "string" -> v.s
      [] v.t = "number" -> [scheme |-> "", rest |-> ToString(v.n)]
      [] OTHER -> [scheme |-> "", rest |-> "undefined"]

\* The text of a string record.
Text(s) == IF s.scheme = "" THEN s.rest ELSE s.scheme \o "://" \o s.rest

\* id.toString()
IdToString(id) == Text(ToStr(id))

\* /^https?:\/\/.+/.test(s)
IsHttpUrl(s) == s.scheme \in {"http", "https"} /\ s.rest # ""

NullEntry == [t |-> "null", id |-> Undefined, imglink |-> Undefined]

NumberEntry == [t |-> "number", id |-> Undefined, imglink |-> Undefined]

Obj(id, imglink) == [t |-> "object", id |-> id, imglink |-> imglink]

\* ------------------------------------------------------------ state

VARIABLES
    body,     \* body[r]: req.body of request r, [dataset, group_img]
    net,      \* the remote host "x": the outcome of each fetch attempt on it
    nodeEnv,  \* process.env.NODE_ENV
    pc,       \* pc[r]: where the handler of request r is suspended
    loads,    \* loads[r][k]: the loadFromDisk call of request r on net k
    nets,     \* nets[k]: how many times the weights of net k were written
    fetch,    \* fetch[r][i]: the loadImageWithRetry call of entry i (0: group_img)
    slot,     \* slot[r][i]: the processSingleFace promise of dataset entry i
    refset,   \* refset[r]: labeledFaceDescriptors of the handler of request r
    started,  \* started[r][i]: the calls of processSingleFace on dataset entry i
    resp      \* resp[r]: the responses sent for request r, in order

vars == <<body, net, nodeEnv, pc, loads, nets, fetch, slot, refset, started, resp>>

\* ------------------------------------------------------------ the remote world

\* What a fetch attempt number a on url meets. A string that is no absolute
\* http(s) URL makes fetch throw; the hosts answer as the table says; host
\* "x" answers as net says.
AttemptOutcome(url, a) ==
    IF ~IsHttpUrl(url) THEN "net"
    ELSE CASE url.rest = "x" -> IF a \in DOMAIN net THEN net[a] ELSE "net"
           [] url.rest = "flaky" -> IF a = 1 THEN "net" ELSE IF a = 2 THEN "http" ELSE "ok"
           [] url.rest = "dead" -> IF a = 1 THEN "http" ELSE IF a = 2 THEN "decode" ELSE "net"
           [] OTHER -> "ok"

\* The descriptors of the faces in the image at url, most confident first.
FacesAt(url) ==
    CASE url.rest = "ok" -> <<0>>
      [] url.rest = "x" -> <<0>>
      [] url.rest = "flaky" -> <<60000>>
      [] url.rest = "far" -> <<130000>>
      [] url.rest = "grp1" -> <<59999>>
      [] url.rest = "grp2" -> <<5, 130005>>
      [] url.rest = "grp3" -> <<30000, 42, 200000>>
      [] OTHER -> <<>>

\* error.message of a failed attempt
AttemptError(o) ==
    CASE o = "http" -> "HTTP error! status: 404"
      [] o = "decode" -> "Unsupported image type"
      [] OTHER -> "network error"

\* ------------------------------------------------------------ loadImageWithRetry

IdleFetch == [st |-> "idle", url |-> EmptyStr, attempt |-> 0, waited |-> 0, err |-> ""]

\* The call loadImageWithRetry(url): the loop starts with attempt = 1 and
\* issues the first fetch at once.
StartFetch(url) == [st |-> "inflight", url |-> url, attempt |-> 1, waited |-> 0, err |-> ""]

\* AttemptFailed giving up one attempt early.
AttemptFailed_OffByOne(f, o) ==
    IF f.attempt >= MAX_RETRIES - 1
    THEN [f EXCEPT !.st = "failed",
                   !.err = "Failed to load image after " \o ToString(MAX_RETRIES)
                           \o " attempts: " \o AttemptError(o)]
    ELSE [f EXCEPT !.st = "delay", !.err = AttemptError(o)]

\* AttemptFailed reporting the message of the attempt before the last one.
AttemptFailed_StaleError(f, o) ==
    IF f.attempt = MAX_RETRIES
    THEN [f EXCEPT !.st = "failed",
                   !.err = "Failed to load image after " \o ToString(MAX_RETRIES)
                           \o " attempts: " \o f.err]
    ELSE [f EXCEPT !.st = "delay", !.err = AttemptError(o)]

\* The catch block of an attempt that failed with outcome o.
AttemptFailed(f, o) ==
    IF f.attempt = MAX_RETRIES
    THEN [f EXCEPT !.st = "failed",
                   !.err = "Failed to load image after " \o ToString(MAX_RETRIES)
                           \o " attempts: " \o AttemptError(o)]
    ELSE [f EXCEPT !.st = "delay", !.err = AttemptError(o)]

\* One attempt settles: the image is returned, or the catch block runs.
AttemptSettled(f) ==
    LET o == AttemptOutcome(f.url, f.attempt)
    IN  IF o = "ok" THEN [f EXCEPT !.st = "ok"] ELSE AttemptFailed(f, o)

\* NextAttempt after a delay that does not grow with the attempt number.
NextAttempt_ConstantDelay(f) ==
    [f EXCEPT !.st = "inflight", !.attempt = f.attempt + 1,
              !.waited = f.waited + RETRY_DELAY]

\* delay(RETRY_DELAY * attempt) elapses and the loop makes its next attempt.
NextAttempt(f) ==
    [f EXCEPT !.st = "inflight", !.attempt = f.attempt + 1,
              !.waited = f.waited + RETRY_DELAY * f.attempt]

\* ------------------------------------------------------------ processSingleFace

validateDatasetEntry(e) ==
    /\ e.t = "object"
    /\ Truthy(e.id) /\ Truthy(e.imglink)
    /\ IsHttpUrl(ToStr(e.imglink))

EmptySlot == [st |-> "unstarted", label |-> "", desc |-> 0]

\* processSingleFace(e) up to its first await: destructuring null throws
\* before the try block; a validation error is caught and gives null.
FirstSlot(e) ==
    IF e.t = "null" THEN [EmptySlot EXCEPT !.st = "rejected"]
    ELSE IF ~validateDatasetEntry(e) THEN [EmptySlot EXCEPT !.st = "null"]
    ELSE [EmptySlot EXCEPT !.st = "pending"]

\* FirstFetch without the call of validateDatasetEntry.
FirstFetch_NoValidate(e) ==
    IF e.t # "null" THEN StartFetch(ToStr(e.imglink)) ELSE IdleFetch

FirstFetch(e) ==
    IF e.t # "null" /\ validateDatasetEntry(e) THEN StartFetch(ToStr(e.imglink)) ELSE IdleFetch

\* detectSingleFace(img) settles: no detection throws inside the try block.
Detected(e, url) ==
    IF FacesAt(url) = <<>> THEN [EmptySlot EXCEPT !.st = "null"]
    ELSE [st |-> "desc", label |-> IdToString(e.id), desc |-> Head(FacesAt(url))]

\* ------------------------------------------------------------ loadLabeledImages

Items(r) == body[r].dataset.items

\* Promise.all(dataset.map(processSingleFace)) is fulfilled.
\* Joined as a race: one settled slot is enough.
Joined_Any(s, n) == \E i \in 1..n : s[i].st \in {"null", "desc"}

Joined(s, n) == \A i \in 1..n : s[i].st \in {"null", "desc"}

\* Promise.all rejects as soon as one of its promises rejects.
Rejected(s, n) == \E i \in 1..n : s[i].st = "rejected"

IsDesc(x) == x.st = "desc"

\* validDescriptors keeping a record for every entry, failed ones included.
validDescriptors_KeepAll(s, n) == [i \in 1..n |-> s[i]]

\* labeledDescriptors.filter((desc) => desc !== null)
validDescriptors(s, n) == SelectSeq([i \in 1..n |-> s[i]], IsDesc)

\* ------------------------------------------------------------ FaceMatcher

Abs(x) == IF x < 0 THEN -x ELSE x

\* The distance of two descriptors.
Distance(a, b) == Abs(a - b)

\* FaceMatcher.matchDescriptor: the reduce keeps best only when it is
\* strictly nearer, so of two equally near references the later one wins.
RECURSIVE matchDescriptor(_, _)
matchDescriptor(refs, d) ==
    LET last == refs[Len(refs)]
        curr == [label |-> last.label, distance |-> Distance(d, last.desc)]
    IN  IF Len(refs) = 1 THEN curr
        ELSE LET best == matchDescriptor(SubSeq(refs, 1, Len(refs) - 1), d)
             IN  IF best.distance < curr.distance THEN best ELSE curr

\* FaceMatcher.findBestMatch with the threshold given to the constructor.
findBestMatch(refs, d) ==
    LET bestMatch == matchDescriptor(refs, d)
    IN  IF bestMatch.distance < FACE_MATCHER_THRESHOLD THEN bestMatch
        ELSE [label |-> "unknown", distance |-> bestMatch.distance]

\* ------------------------------------------------------------ response shaping

\* The string a sign, a whole part and two decimals print as.
Render(neg, whole, frac) ==
    (IF neg THEN "-" ELSE "") \o ToString(whole) \o "."
    \o (IF frac < 10 THEN "0" ELSE "") \o ToString(frac)

\* ((1 - distance) * 100).toFixed(2) + "%": the digits of the nearest
\* multiple of 0.01, the larger one of two equally near, after the sign is
\* taken off; text is the string itself.
toFixed2(distance) ==
    LET x == One - distance
        n == (Abs(x) + 5) \div 10
    IN  [neg |-> x < 0, whole |-> n \div 100, frac |-> n % 100,
         text |-> Render(x < 0, n \div 100, n % 100) \o "%"]

NoBody == [status |-> 0, error |-> "", details |-> "", message |-> "",
           stack |-> FALSE, success |-> FALSE, totalFacesDetected |-> 0,
           matches |-> <<>>]

BadRequest(error, details) ==
    [NoBody EXCEPT !.status = 400, !.error = error, !.details = details]

\* InternalError hiding the stack in production only.
InternalError_NotProduction(message) ==
    [NoBody EXCEPT !.status = 500, !.error = "Internal server error",
                   !.message = message, !.stack = (nodeEnv # "production")]

\* The catch block of the handler.
InternalError(message) ==
    [NoBody EXCEPT !.status = 500, !.error = "Internal server error",
                   !.message = message, !.stack = (nodeEnv = "development")]

MatchEntry(result) ==
    [label |-> result.label, distance |-> result.distance,
     confidence |-> toFixed2(result.distance)]

\* detections.map(findBestMatch) and the res.json of the results
Success(refs, detections) ==
    [NoBody EXCEPT !.status = 200, !.success = TRUE,
                   !.totalFacesDetected = Len(detections),
                   !.matches = [i \in 1..Len(detections) |->
                                   MatchEntry(findBestMatch(refs, detections[i]))]]

\* ------------------------------------------------------------ the handler

DatasetValid(d) == d.t = "array" /\ Len(d.items) > 0

\* GroupImgValid without the typeof test.
GroupImgValid_NoTypeCheck(g) == Truthy(g)

GroupImgValid(g) == Truthy(g) /\ g.t = "string"

Send(r, b) == resp' = [resp EXCEPT ![r] = Append(@, b)]

\* The handler awaits loadLabeledImages with fetches f and slots s: a
\* rejected slot rejects Promise.all and the handler catches it; when every
\* slot is settled the filter runs and either throws or lets the handler go
\* on to loadImageWithRetry(group_img).
AwaitBuild(r, f, s) ==
    LET n == Len(Items(r))
        valid == validDescriptors(s, n)
    IN  /\ slot' = [slot EXCEPT ![r] = s]
        /\ IF Rejected(s, n)
           THEN /\ Send(r, InternalError("Cannot destructure property 'id' of 'data' as it is null."))
                /\ pc' = [pc EXCEPT ![r] = "done"]
                /\ fetch' = [fetch EXCEPT ![r] = f]
                /\ UNCHANGED refset
           ELSE IF ~Joined(s, n)
           THEN /\ pc' = [pc EXCEPT ![r] = "build"]
                /\ fetch' = [fetch EXCEPT ![r] = f]
                /\ UNCHANGED <<refset, resp>>
           ELSE IF Len(valid) = 0
           THEN /\ Send(r, InternalError("No valid face descriptors could be generated from the dataset"))
                /\ pc' = [pc EXCEPT ![r] = "done"]
                /\ fetch' = [fetch EXCEPT ![r] = f]
                /\ UNCHANGED refset
           ELSE /\ refset' = [refset EXCEPT ![r] = valid]
                /\ fetch' = [fetch EXCEPT ![r] = [f EXCEPT ![0] = StartFetch(ToStr(body[r].group_img))]]
                /\ pc' = [pc EXCEPT ![r] = "gfetch"]
                /\ UNCHANGED resp

\* A slot or fetch of request r changed: the handler goes on only if it is
\* the one awaiting them.
Settle(r, f, s) ==
    IF pc[r] = "build" THEN AwaitBuild(r, f, s)
    ELSE /\ slot' = [slot EXCEPT ![r] = s]
         /\ fetch' = [fetch EXCEPT ![r] = f]
         /\ UNCHANGED <<pc, refset, resp>>

\* dataset.map(processSingleFace): every entry runs to its first await.
MapFetches(r) ==
    [i \in Idx |-> IF i \in 1..Len(Items(r)) THEN FirstFetch(Items(r)[i]) ELSE IdleFetch]

\* dataset.map calls processSingleFace once on every element.
MapCalls(r) ==
    [i \in 1..MaxDataset |-> IF i <= Len(Items(r)) THEN started[r][i] + 1 ELSE started[r][i]]

MapSlots(r) ==
    [i \in 1..MaxDataset |-> IF i <= Len(Items(r)) THEN FirstSlot(Items(r)[i]) ELSE EmptySlot]

\* POST / arrives: the handler runs to its first await.
Post(r) ==
    /\ pc[r] = "new"
    /\ IF ~DatasetValid(body[r].dataset)
       THEN /\ Send(r, BadRequest("Invalid dataset format", "Dataset must be a non-empty array"))
            /\ pc' = [pc EXCEPT ![r] = "done"]
            /\ UNCHANGED loads
       ELSE IF ~GroupImgValid(body[r].group_img)
       THEN /\ Send(r, BadRequest("Invalid group_img", "group_img must be a valid URL string"))
            /\ pc' = [pc EXCEPT ![r] = "done"]
            /\ UNCHANGED loads
       ELSE /\ loads' = [loads EXCEPT ![r] = [k \in Nets |-> "loading"]]
            /\ pc' = [pc EXCEPT ![r] = "models"]
            /\ UNCHANGED resp
    /\ UNCHANGED <<body, net, nodeEnv, started, nets, fetch, slot, refset>>

\* loadFromDisk of net k succeeds for request r: the weights are written;
\* when it is the last of the three, initializeModels returns and the handler
\* calls loadLabeledImages.
LoadOk(r, k) ==
    /\ loads[r][k] = "loading"
    /\ loads' = [loads EXCEPT ![r][k] = "ok"]
    /\ nets' = [nets EXCEPT ![k] = @ + 1]
    /\ IF pc[r] = "models" /\ \A j \in Nets \ {k} : loads[r][j] = "ok"
       THEN /\ AwaitBuild(r, MapFetches(r), MapSlots(r))
            /\ started' = [started EXCEPT ![r] = MapCalls(r)]
       ELSE UNCHANGED <<pc, fetch, slot, refset, started, resp>>
    /\ UNCHANGED <<body, net, nodeEnv>>

\* LoadFail with the error only logged, never rethrown.
LoadFail_Swallowed(r, k) ==
    /\ loads[r][k] = "loading"
    /\ loads' = [loads EXCEPT ![r][k] = "fail"]
    /\ UNCHANGED <<body, net, nodeEnv, started, pc, nets, fetch, slot, refset, resp>>

\* loadFromDisk of net k fails for request r: Promise.all rejects,
\* initializeModels rethrows and the handler catches.
LoadFail(r, k) ==
    /\ loads[r][k] = "loading"
    /\ loads' = [loads EXCEPT ![r][k] = "fail"]
    /\ IF pc[r] = "models"
       THEN /\ Send(r, InternalError("Failed to load face recognition models: load error"))
            /\ pc' = [pc EXCEPT ![r] = "done"]
       ELSE UNCHANGED <<pc, resp>>
    /\ UNCHANGED <<body, net, nodeEnv, started, nets, fetch, slot, refset>>

\* A fetch attempt of dataset entry i settles.
EntryAttempt(r, i) ==
    /\ i \in 1..MaxDataset
    /\ fetch[r][i].st = "inflight"
    /\ LET f == AttemptSettled(fetch[r][i])
           s == CASE f.st = "ok" -> [EmptySlot EXCEPT !.st = "detecting"]
                  [] f.st = "failed" -> [EmptySlot EXCEPT !.st = "null"]
                  [] OTHER -> slot[r][i]
       IN  Settle(r, [fetch[r] EXCEPT ![i] = f], [slot[r] EXCEPT ![i] = s])
    /\ UNCHANGED <<body, net, nodeEnv, started, loads, nets>>

\* detectSingleFace of dataset entry i settles.
EntryDetect(r, i) ==
    /\ i \in 1..MaxDataset
    /\ slot[r][i].st = "detecting"
    /\ Settle(r, fetch[r], [slot[r] EXCEPT ![i] = Detected(Items(r)[i], fetch[r][i].url)])
    /\ UNCHANGED <<body, net, nodeEnv, started, loads, nets>>

\* The backoff timer of fetch i (an entry or the group image) fires.
DelayElapsed(r, i) ==
    /\ fetch[r][i].st = "delay"
    /\ fetch' = [fetch EXCEPT ![r][i] = NextAttempt(@)]
    /\ UNCHANGED <<body, net, nodeEnv, started, pc, loads, nets, slot, refset, resp>>

\* GroupAttempt reporting an exhausted fetch as an image without faces.
GroupAttempt_Confused(r) ==
    /\ fetch[r][0].st = "inflight"
    /\ LET f == AttemptSettled(fetch[r][0])
       IN  /\ fetch' = [fetch EXCEPT ![r][0] = f]
           /\ CASE f.st = "ok" -> pc' = [pc EXCEPT ![r] = "gdetect"] /\ UNCHANGED resp
                [] f.st = "failed" -> Send(r, BadRequest("No faces detected in group image", ""))
                                      /\ pc' = [pc EXCEPT ![r] = "done"]
                [] OTHER -> UNCHANGED <<pc, resp>>
    /\ UNCHANGED <<body, net, nodeEnv, started, loads, nets, slot, refset>>

\* A fetch attempt of the group image settles.
GroupAttempt(r) ==
    /\ fetch[r][0].st = "inflight"
    /\ LET f == AttemptSettled(fetch[r][0])
       IN  /\ fetch' = [fetch EXCEPT ![r][0] = f]
           /\ CASE f.st = "ok" -> pc' = [pc EXCEPT ![r] = "gdetect"] /\ UNCHANGED resp
                [] f.st = "failed" -> Send(r, InternalError(f.err)) /\ pc' = [pc EXCEPT ![r] = "done"]
                [] OTHER -> UNCHANGED <<pc, resp>>
    /\ UNCHANGED <<body, net, nodeEnv, started, loads, nets, slot, refset>>

\* The reference sets of all requests, as one array shared by the handlers
\* would hold them.
RECURSIVE AllRefs(_)
AllRefs(n) == IF n = 0 THEN <<>> ELSE AllRefs(n - 1) \o refset[n]

\* GroupDetect matching against the reference sets of every request.
GroupDetect_Shared(r) ==
    /\ pc[r] = "gdetect"
    /\ LET detections == FacesAt(fetch[r][0].url)
       IN  IF Len(detections) = 0
           THEN Send(r, BadRequest("No faces detected in group image", ""))
           ELSE Send(r, Success(AllRefs(NumReq), detections))
    /\ pc' = [pc EXCEPT ![r] = "done"]
    /\ UNCHANGED <<body, net, nodeEnv, started, loads, nets, fetch, slot, refset>>

\* detectAllFaces of the group image settles: the handler answers.
GroupDetect(r) ==
    /\ pc[r] = "gdetect"
    /\ LET detections == FacesAt(fetch[r][0].url)
       IN  IF Len(detections) = 0
           THEN Send(r, BadRequest("No faces detected in group image", ""))
           ELSE Send(r, Success(refset[r], detections))
    /\ pc' = [pc EXCEPT ![r] = "done"]
    /\ UNCHANGED <<body, net, nodeEnv, started, loads, nets, fetch, slot, refset>>

\* ------------------------------------------------------------ initial states

Array(items) == [t |-> "array", items |-> items]

\* dataset absent from the body, and dataset an object that is no array
NoDataset == [t |-> "undefined", items |-> <<>>]

ObjectDataset == [t |-> "object", items |-> <<>>]

OkEntry == Obj(Num(1), Str("http", "ok"))

FlakyEntry == Obj(Num(2), Str("https", "flaky"))

DeadEntry == Obj(Num(3), Str("http", "dead"))

NoFaceEntry == Obj(Num(4), Str("http", "noface"))

BadUrlEntry == Obj(Num(2), Str("", "not-a-url"))

\* The entries that datasets of every length are built from.
Entries == {NullEntry, BadUrlEntry, OkEntry, DeadEntry, NoFaceEntry}

\* Further shapes of an entry, tried alone and beside a good entry.
OddEntries ==
    { NumberEntry,
      Obj(Undefined, Str("http", "ok")),
      Obj(Num(0), Str("http", "ok")),
      Obj(Num(3), Undefined),
      Obj(Num(5), Str("http", "")),
      Obj(Num(6), Str("ftp", "ok")),
      Obj(Num(7), Num(8)),
      FlakyEntry,
      Obj(Str("", "1"), Str("http", "far")) }

Datasets ==
    {NoDataset, ObjectDataset}
    \cup {Array(items) : items \in UNION {[1..n -> Entries] : n \in 0..MaxDataset}}
    \cup {Array(<<e>>) : e \in OddEntries}
    \cup {Array(<<e, OkEntry>>) : e \in OddEntries}
    \cup {Array(<<OkEntry, e>>) : e \in OddEntries}

GroupImgs ==
    { Undefined, Num(7), Str("", ""), Str("", "not-a-url"),
      Str("http", "grp1"), Str("http", "grp2"), Str("https", "grp3"),
      Str("http", "dead"), Str("http", "noface"), Str("https", "flaky") }

Body(dataset, group_img) == [dataset |-> dataset, group_img |-> group_img]

AlwaysOk == [a \in 1..MAX_RETRIES |-> "ok"]

\* Every dataset with one group image; a few datasets with every group image.
ShapeBodies ==
    {Body(d, Str("http", "grp2")) : d \in Datasets}
    \cup {Body(Array(items), g) :
             items \in {<<OkEntry>>, <<FlakyEntry, OkEntry>>, <<DeadEntry>>,
                        <<DeadEntry, OkEntry>>},
             g \in GroupImgs}

\* A dataset entry and a group image on the host "x".
FetchBodies ==
    { Body(Array(<<Obj(Num(1), Str("http", "x"))>>), Str("http", "grp1")),
      Body(Array(<<OkEntry>>), Str("http", "x")),
      Body(Array(<<Obj(Num(1), Str("http", "x")), DeadEntry>>), Str("http", "x")) }

EnvBodies ==
    { Body(Array(<<OkEntry>>), Str("http", "grp2")),
      Body(Array(<<OkEntry>>), Str("http", "dead")),
      Body(Array(<<DeadEntry>>), Str("http", "grp2")),
      Body(Array(<<NullEntry>>), Str("http", "grp2")),
      Body(NoDataset, Str("http", "grp2")) }

NoRequest == Body(NoDataset, Undefined)

\* The state of the process before any request is handled.
Fresh ==
    /\ loads = [r \in Req |-> [k \in Nets |-> "idle"]]
    /\ nets = [k \in Nets |-> 0]
    /\ fetch = [r \in Req |-> [i \in Idx |-> IdleFetch]]
    /\ slot = [r \in Req |-> [i \in 1..MaxDataset |-> EmptySlot]]
    /\ refset = [r \in Req |-> <<>>]
    /\ started = [r \in Req |-> [i \in 1..MaxDataset |-> 0]]
    /\ resp = [r \in Req |-> <<>>]

\* One request: its body, the answers of host "x" and NODE_ENV are the inputs.
Init ==
    /\ Fresh
    /\ pc = [r \in Req |-> IF r = 1 THEN "new" ELSE "absent"]
    /\ \E b \in ShapeBodies \cup FetchBodies \cup EnvBodies :
          /\ body = [r \in Req |-> IF r = 1 THEN b ELSE NoRequest]
          /\ \/ b \in ShapeBodies /\ net = AlwaysOk /\ nodeEnv = "unset"
             \/ b \in FetchBodies /\ net \in [1..MAX_RETRIES -> Outcomes] /\ nodeEnv = "unset"
             \/ b \in EnvBodies /\ net = AlwaysOk /\ nodeEnv \in {"production", "development", "test"}

\* The body of request r when several requests are in flight together.
ConcBody(r) ==
    CASE r = 1 -> Body(Array(<<OkEntry>>), Str("http", "grp1"))
      [] r = 2 -> Body(Array(<<FlakyEntry>>), Str("http", "grp2"))
      [] OTHER -> Body(Array(<<Obj(Str("", "1"), Str("http", "far"))>>), Str("http", "noface"))

\* Every request in flight at once.
InitConc ==
    /\ Fresh
    /\ pc = [r \in Req |-> "new"]
    /\ body = [r \in Req |-> ConcBody(r)]
    /\ net = AlwaysOk
    /\ nodeEnv = "unset"

Next ==
    \/ \E r \in Req : Post(r)
    \/ \E r \in Req, k \in Nets : LoadOk(r, k)
    \/ \E r \in Req, k \in Nets : LoadFail(r, k)
    \/ \E r \in Req, i \in Idx : EntryAttempt(r, i)
    \/ \E r \in Req, i \in Idx : EntryDetect(r, i)
    \/ \E r \in Req, i \in Idx : DelayElapsed(r, i)
    \/ \E r \in Req : GroupAttempt(r)
    \/ \E r \in Req : GroupDetect(r)

Spec == Init /\ [][Next]_vars

SpecConc == InitConc /\ [][Next]_vars

\* The steps of request r: its handler's turn, and the settling of the
\* external calls and timers it is waiting for.
RequestStep(r) ==
    \/ Post(r)
    \/ \E k \in Nets : LoadOk(r, k) \/ LoadFail(r, k)
    \/ \E i \in Idx : EntryAttempt(r, i) \/ EntryDetect(r, i) \/ DelayElapsed(r, i)
    \/ GroupAttempt(r)
    \/ GroupDetect(r)

\* Every model load, fetch (with its timeout), decode, detection and timer
\* a request waits for settles in the end, and the event loop then runs the
\* continuation.
FairSpec == Init /\ [][Next]_vars /\ \A r \in Req : WF_vars(RequestStep(r))

\* ------------------------------------------------------------ what the claims speak of

Answered(r) == Len(resp[r]) > 0

Answer(r) == resp[r][1]

\* All three models loaded for request r.
ModelsLoaded(r) == \A k \in Nets : loads[r][k] = "ok"

\* Some attempt within the retry bound succeeds on url.
Reachable(url) == \E a \in 1..MAX_RETRIES : AttemptOutcome(url, a) = "ok"

\* The first attempt that succeeds on a reachable url.
FirstOk(url) == CHOOSE a \in 1..MAX_RETRIES :
                    /\ AttemptOutcome(url, a) = "ok"
                    /\ \A b \in 1..(a - 1) : AttemptOutcome(url, b) # "ok"

\* A dataset entry of the shape the data model asks for: an object with a
\* non-empty id and an imglink that is an http(s) URL.
WellFormed(e) ==
    /\ e.t = "object"
    /\ \/ e.id.t = "number" /\ e.id.n # 0
       \/ e.id.t = "string" /\ e.id.s # EmptyStr
    /\ e.imglink.t = "string"
    /\ e.imglink.s.scheme \in {"http", "https"} /\ e.imglink.s.rest # ""

\* A dataset entry that validates, can be fetched and shows a face.
Processable(e) ==
    /\ WellFormed(e)
    /\ Reachable(e.imglink.s)
    /\ FacesAt(e.imglink.s) # <<>>

\* A well-formed entry whose image no attempt can fetch.
Unreachable(e) == WellFormed(e) /\ ~Reachable(e.imglink.s)

\* The request passes input validation.
InputValid(b) ==
    /\ b.dataset.t = "array" /\ b.dataset.items # <<>>
    /\ b.group_img.t = "string" /\ b.group_img.s # EmptyStr

GroupUrl(r) == body[r].group_img.s

Present == {r \in Req : pc[r] # "absent"}

\* ------------------------------------------------------------ claims

\* C1: when the request passes input validation, its models load and every
\* dataset entry fails, the response is 400 with an empty-reference-set
\* error, never 500. (The handler answers 500: the statement is violated.)
C1_EmptyReferenceSetIs400 ==
    \A r \in Present :
        ( /\ Answered(r)
          /\ InputValid(body[r])
          /\ ModelsLoaded(r)
          /\ \A i \in 1..Len(Items(r)) : ~Processable(Items(r)[i]) )
        => Answer(r).status = 400

\* C2: once the reference set is non-empty, a group image that was fetched
\* and shows no face is answered 400 "no faces detected", a group image whose
\* fetch failed on all MAX_RETRIES attempts is answered 500, and neither
\* answer is given in the other case.
C2_GroupOutcomesDistinct ==
    \A r \in Present :
        (Answered(r) /\ refset[r] # <<>>) =>
            LET g == fetch[r][0]
                noFaces == /\ Answer(r).status = 400
                           /\ Answer(r).error = "No faces detected in group image"
            IN  /\ (g.st = "ok" /\ FacesAt(g.url) = <<>>) => noFaces
                /\ g.st = "failed" => Answer(r).status = 500 /\ g.attempt = MAX_RETRIES
                /\ Answer(r).status = 400 => g.st = "ok" /\ FacesAt(g.url) = <<>>
                /\ Answer(r).status = 500 => g.st = "failed" /\ ~Reachable(GroupUrl(r))
                /\ g.url = GroupUrl(r)

\* C2 witness: a request with a reference set whose group image was fetched
\* and shows no face, answered 400.
C2_Witness ==
    \E r \in Present :
        /\ Answered(r) /\ refset[r] # <<>>
        /\ fetch[r][0].st = "ok" /\ FacesAt(fetch[r][0].url) = <<>>
        /\ Answer(r).status = 400

\* C3: a loadImageWithRetry call makes its attempts one after the other up
\* to the first success and no more: it returns the image after exactly k
\* attempts when attempt k <= MAX_RETRIES is the first to succeed, and fails
\* after exactly MAX_RETRIES attempts when none succeeds, whatever the kinds
\* of the failures.
C3_RetryAttempts ==
    \A r \in Present : \A i \in Idx :
        LET f == fetch[r][i]
        IN  f.st # "idle" =>
              /\ f.attempt \in 1..MAX_RETRIES
              /\ Reachable(f.url) =>
                    /\ f.attempt <= FirstOk(f.url)
                    /\ f.st # "failed"
                    /\ f.st = "ok" <=> (f.attempt = FirstOk(f.url) /\ f.st # "inflight")
              /\ ~Reachable(f.url) =>
                    /\ f.st # "ok"
                    /\ f.st = "failed" <=> (f.attempt = MAX_RETRIES /\ f.st # "inflight")

\* C3 witness: a fetch on host "x" that failed twice, in two different ways,
\* then succeeded, returned after exactly 3 attempts.
C3_Witness ==
    \E r \in Present : \E i \in Idx :
        /\ fetch[r][i].url.rest = "x"
        /\ net[1] # "ok" /\ net[2] # "ok" /\ net[1] # net[2] /\ net[3] = "ok"
        /\ fetch[r][i].st = "ok" /\ fetch[r][i].attempt = 3

\* The least distance from descriptor d to the face of a processable entry
\* of request r.
NearestDistance(r, d) ==
    LET ds == {Distance(d, Head(FacesAt(Items(r)[i].imglink.s))) :
                  i \in {j \in 1..Len(Items(r)) : Processable(Items(r)[j])}}
    IN  CHOOSE x \in ds : \A y \in ds : x <= y

GroupProcessable(r) == Reachable(GroupUrl(r)) /\ FacesAt(GroupUrl(r)) # <<>>

\* C4: a request whose dataset has at least one processable entry and whose
\* group image shows n >= 1 faces is answered 200 with totalFacesDetected = n
\* and n matches, the i-th one being the match of the i-th detection. (A null
\* entry beside the processable one makes the answer 500: the statement is
\* violated.)
C4_OrderedMatches ==
    \A r \in Present :
        LET dets == FacesAt(GroupUrl(r))
        IN  ( /\ Answered(r) /\ InputValid(body[r]) /\ ModelsLoaded(r)
              /\ \E i \in 1..Len(Items(r)) : Processable(Items(r)[i])
              /\ GroupProcessable(r) )
            => /\ Answer(r).status = 200
               /\ Answer(r).totalFacesDetected = Len(dets)
               /\ Len(Answer(r).matches) = Len(dets)
               /\ \A i \in 1..Len(dets) :
                     Answer(r).matches[i].distance = NearestDistance(r, dets[i])

\* C5: every entry whose imglink is unreachable is left out of the reference
\* set, and the request is still answered with success when another entry and
\* the group image are processable. (A null entry in the same dataset makes
\* the answer 500: the statement is violated.)
C5_UnreachableExcluded ==
    \A r \in Present :
        ( /\ Answered(r) /\ InputValid(body[r]) /\ ModelsLoaded(r)
          /\ GroupProcessable(r)
          /\ \E i, j \in 1..Len(Items(r)) :
                Unreachable(Items(r)[i]) /\ Processable(Items(r)[j]) )
        => /\ Answer(r).status = 200 /\ Answer(r).success
           /\ \A i \in 1..Len(Items(r)) :
                 Unreachable(Items(r)[i]) => slot[r][i].st = "null"

\* C6: the failure of a dataset entry, of whatever kind (a null entry
\* included), stays inside the reference-set builder: when some entry is
\* processable the builder hands the handler a non-empty reference set that
\* holds every processable entry. (A null entry rejects the whole fan-in: the
\* statement is violated.)
C6_EntryFailureContained ==
    \A r \in Present :
        ( /\ Answered(r) /\ InputValid(body[r]) /\ ModelsLoaded(r)
          /\ \E i \in 1..Len(Items(r)) : Processable(Items(r)[i]) )
        => /\ refset[r] # <<>>
           /\ \A i \in 1..Len(Items(r)) :
                 Processable(Items(r)[i]) => slot[r][i].st = "desc"

\* C7: a request whose dataset is missing, no array or empty, or whose
\* group_img is missing, empty or no string, is answered 400 with a
\* structured body, once, and nothing else is done for it: no model load, no
\* fetch attempt, no detection, no match.
C7_InvalidInputStopsEarly ==
    \A r \in Present :
        ~InputValid(body[r]) =>
            /\ pc[r] \in {"new", "done"}
            /\ pc[r] = "done" =>
                  /\ Len(resp[r]) = 1
                  /\ Answer(r).status = 400
                  /\ Answer(r).error # "" /\ Answer(r).details # ""
                  /\ Answer(r).matches = <<>>
            /\ \A k \in Nets : loads[r][k] = "idle"
            /\ \A i \in Idx : fetch[r][i] = IdleFetch
            /\ \A i \in 1..MaxDataset : slot[r][i] = EmptySlot
            /\ refset[r] = <<>>

\* C7 witness: a request with a good dataset and a number as group_img has
\* been answered 400.
C7_Witness ==
    \E r \in Present :
        /\ pc[r] = "done"
        /\ body[r].dataset.t = "array" /\ body[r].dataset.items # <<>>
        /\ body[r].group_img.t = "number" /\ body[r].group_img.n # 0
        /\ Answer(r).status = 400 /\ Answer(r).error = "Invalid group_img"

\* C8: when the load of any of the three models fails, the request is
\* answered 500 with a structured body that carries the failure message, and
\* no dataset image and no group image is fetched for it.
C8_ModelLoadFailureIs500 ==
    \A r \in Present :
        (\E k \in Nets : loads[r][k] = "fail") =>
            /\ pc[r] = "done"
            /\ Len(resp[r]) = 1
            /\ Answer(r).status = 500
            /\ Answer(r).error = "Internal server error"
            /\ Answer(r).message = "Failed to load face recognition models: load error"
            /\ \A i \in Idx : fetch[r][i].st = "idle" /\ fetch[r][i].attempt = 0
            /\ \A i \in 1..MaxDataset : slot[r][i] = EmptySlot

\* C8 witness: one model loaded, another failed, and the request has its 500.
C8_Witness ==
    \E r \in Present : \E j, k \in Nets :
        /\ loads[r][j] = "ok" /\ loads[r][k] = "fail"
        /\ Answered(r) /\ Answer(r).status = 500

\* C9: once all three models have been loaded, no request writes them again.
\* (Every request calls initializeModels, which loads them from disk again:
\* the statement is violated.)
C9_ModelsReadOnlyAfterInit ==
    [][(\A k \in Nets : nets[k] >= 1) => nets' = nets]_vars

\* The number, in hundredths, that a confidence string parses as.
ParseConfidence(c) == (IF c.neg THEN -1 ELSE 1) * (c.whole * 100 + c.frac)

\* C10: the confidence of every match of every 200 response parses as a
\* number in [0,100] and is (1 - distance) * 100 rounded to two decimals.
\* (A distance above 1 gives a negative percentage: the statement is
\* violated.)
C10_ConfidenceInRange ==
    \A r \in Present :
        (Answered(r) /\ Answer(r).status = 200) =>
            \A i \in 1..Len(Answer(r).matches) :
                LET m == Answer(r).matches[i]
                    v == ParseConfidence(m.confidence)
                IN  /\ 0 <= v /\ v <= 100 * 100
                    /\ Abs(10 * v - (One - m.distance)) <= 5

\* Every dataset entry of request r has settled.
AllSettled(r) == \A i \in 1..Len(Items(r)) : slot[r][i].st \in {"null", "desc", "rejected"}

\* C11: every failure raised in the handler after input validation is
\* answered 500 with the message of the underlying error, and a 500 carries
\* a stack only when NODE_ENV selects a non-production mode: never when it
\* is unset or "production".
C11_StackOnlyOutsideProduction ==
    \A r \in Present :
        /\ \A j \in 1..Len(resp[r]) :
              LET a == resp[r][j]
              IN  /\ a.stack => a.status = 500 /\ nodeEnv \notin {"unset", "production"}
                  /\ a.status = 500 => a.error = "Internal server error" /\ a.message # ""
        /\ (pc[r] = "done" /\ InputValid(body[r])) =>
              /\ (\E k \in Nets : loads[r][k] = "fail") =>
                    /\ Answer(r).status = 500
                    /\ Answer(r).message = "Failed to load face recognition models: load error"
              /\ (ModelsLoaded(r) /\ \E i \in 1..Len(Items(r)) : Items(r)[i].t = "null") =>
                    /\ Answer(r).status = 500
                    /\ Answer(r).message = "Cannot destructure property 'id' of 'data' as it is null."
              /\ (ModelsLoaded(r) /\ \A i \in 1..Len(Items(r)) : slot[r][i].st = "null") =>
                    /\ Answer(r).status = 500
                    /\ Answer(r).message = "No valid face descriptors could be generated from the dataset"
              /\ fetch[r][0].st = "failed" =>
                    /\ Answer(r).status = 500
                    /\ Answer(r).message = fetch[r][0].err

\* C11 witness: in development mode a failed group image fetch has been
\* answered 500 with a stack.
C11_Witness ==
    \E r \in Present :
        /\ nodeEnv = "development"
        /\ fetch[r][0].st = "failed"
        /\ Answered(r) /\ Answer(r).status = 500 /\ Answer(r).stack

\* loadLabeledImages of request r has returned or thrown to the handler.
BuilderDone(r) ==
    /\ InputValid(body[r]) /\ ModelsLoaded(r)
    /\ pc[r] \in {"gfetch", "gdetect", "done"}

\* C12: loadLabeledImages delivers its result, a reference set or a failure,
\* only when every dataset entry has settled: no fetch and no detection of
\* an entry is in flight then. (A null entry rejects Promise.all at once,
\* while its siblings are still fetching: the statement is violated.)
C12_FanInWaitsForAll ==
    \A r \in Present :
        BuilderDone(r) =>
            \A i \in 1..Len(Items(r)) :
                /\ slot[r][i].st \in {"null", "desc", "rejected"}
                /\ fetch[r][i].st \notin {"inflight", "delay"}

\* The labeled descriptors of the processable entries of request r.
ExpectedRefs(r) ==
    LET e(i) == Items(r)[i]
        all == [i \in 1..Len(Items(r)) |->
                   IF Processable(e(i))
                   THEN [st |-> "desc", label |-> IdToString(e(i).id),
                         desc |-> Head(FacesAt(e(i).imglink.s))]
                   ELSE EmptySlot]
    IN  SelectSeq(all, IsDesc)

\* C13: whatever the order in which the entries complete, every dataset
\* entry is started exactly once, a reference set that is returned holds
\* exactly one labeled descriptor, labeled id.toString(), for each entry that
\* validated, was fetched and showed a face, and nothing for a failed entry;
\* when that set is empty the builder fails and no empty set is returned.
C13_ReferenceSetExact ==
    \A r \in Present :
        /\ \A i \in 1..MaxDataset :
              started[r][i] =
                 IF InputValid(body[r]) /\ ModelsLoaded(r) /\ i <= Len(Items(r)) THEN 1 ELSE 0
        /\ (pc[r] \in {"gfetch", "gdetect"} \/ refset[r] # <<>>) =>
              /\ refset[r] # <<>>
              /\ refset[r] = ExpectedRefs(r)
        /\ (BuilderDone(r) /\ ExpectedRefs(r) = <<>>) =>
              /\ refset[r] = <<>>
              /\ pc[r] = "done" /\ Answer(r).status = 500
              /\ fetch[r][0] = IdleFetch

\* C13 witness: a reference set of two descriptors built from a dataset of
\* three entries, one of which failed.
C13_Witness ==
    \E r \in Present :
        /\ Len(Items(r)) = 3 /\ Len(refset[r]) = 2
        /\ \E i \in 1..3 : slot[r][i].st = "null"

\* RETRY_DELAY * (1 + 2 + ... + k)
RECURSIVE BackoffSum(_)
BackoffSum(k) == IF k <= 0 THEN 0 ELSE RETRY_DELAY * k + BackoffSum(k - 1)

LastAttemptMessage(url) ==
    "Failed to load image after 3 attempts: " \o AttemptError(AttemptOutcome(url, MAX_RETRIES))

\* The calls of loadImageWithRetry that have failed.
FailedFetches == {p \in Req \X Idx : p[1] \in Present /\ fetch[p[1]][p[2]].st = "failed"}

\* C15 as stated: the error of a failed loadImageWithRetry call carries the
\* message of the last attempt's error and the URL that was fetched, so the
\* errors of two failed calls on different URLs differ.
C15_ErrorCarriesMessageAndUrl ==
    \A p \in FailedFetches :
        LET f == fetch[p[1]][p[2]]
        IN  /\ f.err = LastAttemptMessage(f.url)
            /\ \A q \in FailedFetches :
                  fetch[q[1]][q[2]].err = f.err => fetch[q[1]][q[2]].url = f.url

\* C15 amended: the error of a failed loadImageWithRetry call is raised by
\* attempt MAX_RETRIES and its message is "Failed to load image after 3
\* attempts: " followed by the message of that attempt's error, whatever the
\* earlier attempts met; when the call was for the group image, the 500
\* response has exactly this message. The URL is not part of the error.
C15_ErrorCarriesLastMessage ==
    \A p \in FailedFetches :
        LET f == fetch[p[1]][p[2]]
        IN  /\ f.attempt = MAX_RETRIES
            /\ f.err = LastAttemptMessage(f.url)
            /\ p[2] = 0 =>
                  /\ Answered(p[1])
                  /\ Answer(p[1]).status = 500
                  /\ Answer(p[1]).message = LastAttemptMessage(f.url)

\* C15 witness: a failed call whose three attempts met three different errors.
C15_Witness ==
    \E p \in FailedFetches :
        LET f == fetch[p[1]][p[2]]
        IN  /\ AttemptOutcome(f.url, 1) # AttemptOutcome(f.url, 2)
            /\ AttemptOutcome(f.url, 2) # AttemptOutcome(f.url, MAX_RETRIES)
            /\ AttemptOutcome(f.url, 1) # AttemptOutcome(f.url, MAX_RETRIES)
            /\ f.err = LastAttemptMessage(f.url)

\* C16: processSingleFace runs validate, fetch, detect, produce in this order:
\* an entry that fails validateDatasetEntry never has a fetch attempt made,
\* detection runs only on a fetched image and never for an entry whose fetch
\* failed, and a slot is non-null only when the entry validated, its image was
\* fetched and a face was detected in it; its label is then id.toString().
C16_EntryStepsInOrder ==
    \A r \in Present : \A i \in 1..MaxDataset :
        LET f == fetch[r][i]
            s == slot[r][i]
        IN  IF i > Len(Items(r)) THEN f = IdleFetch /\ s = EmptySlot
            ELSE LET e == Items(r)[i]
                 IN  /\ ~WellFormed(e) => f = IdleFetch /\ s.st \in {"unstarted", "null", "rejected"}
                     /\ s.st = "pending" => f.st \in {"inflight", "delay"}
                     /\ s.st = "detecting" => f.st = "ok"
                     /\ f.st = "failed" => s.st = "null"
                     /\ f.st = "ok" => s.st \in {"detecting", "desc", "null"}
                     /\ s.st = "desc" =>
                           /\ WellFormed(e)
                           /\ f.st = "ok" /\ f.url = e.imglink.s
                           /\ FacesAt(f.url) # <<>>
                           /\ s.label = IdToString(e.id)
                           /\ s.desc = Head(FacesAt(f.url))

\* C16 witness: beside an entry with imglink "not-a-url" that was dropped
\* without a fetch and an entry whose fetch failed and that was dropped
\* without a detection, an entry with id 1 went through all steps.
C16_Witness ==
    \E r \in Present : \E i, j, k \in 1..Len(Items(r)) :
        /\ Items(r)[i] = BadUrlEntry /\ slot[r][i].st = "null" /\ fetch[r][i] = IdleFetch
        /\ fetch[r][j].st = "failed" /\ slot[r][j].st = "null"
        /\ slot[r][k].st = "desc" /\ slot[r][k].label = "1"

\* The labels of the entries of request r that can be processed.
OwnLabels(r) ==
    {IdToString(Items(r)[i].id) : i \in {j \in 1..Len(Items(r)) : Processable(Items(r)[j])}}

\* C17: in every interleaving of concurrent requests, the reference set of a
\* request holds labels of that request's own processable entries only, and
\* every label in its response is "unknown" or id.toString() of a processable
\* entry of its own dataset, never a label only another request's dataset has.
C17_RequestScoped ==
    \A r \in Present :
        /\ \A i \in 1..Len(refset[r]) : refset[r][i].label \in OwnLabels(r)
        /\ Answered(r) =>
              \A m \in 1..Len(Answer(r).matches) :
                  Answer(r).matches[m].label \in OwnLabels(r) \cup {"unknown"}

\* C17 witness: two requests whose datasets have different labels were in
\* flight together and each was answered with a match of its own label.
C17_Witness ==
    \E r, q \in Present :
        /\ r # q /\ OwnLabels(r) \cap OwnLabels(q) = {}
        /\ refset[r] # <<>> /\ refset[q] # <<>>
        /\ Answered(r) /\ Answered(q)
        /\ \E m \in 1..Len(Answer(r).matches) : Answer(r).matches[m].label \in OwnLabels(r)
        /\ \E m \in 1..Len(Answer(q).matches) : Answer(q).matches[m].label \in OwnLabels(q)

\* C18: the request-level steps are ordered: the group image fetch has
\* started only when the models had loaded, every dataset entry had settled
\* and the reference set was not empty, and matches are in a response only
\* when the group image was fetched and detection found at least one face in
\* it, one match for each face.
C18_RequestStepsInOrder ==
    \A r \in Present :
        /\ fetch[r][0] # IdleFetch =>
              /\ ModelsLoaded(r)
              /\ AllSettled(r)
              /\ \A i \in 1..Len(Items(r)) : fetch[r][i].st \in {"idle", "ok", "failed"}
              /\ refset[r] # <<>>
              /\ pc[r] \in {"gfetch", "gdetect", "done"}
        /\ pc[r] \in {"gfetch", "gdetect"} => fetch[r][0] # IdleFetch
        /\ pc[r] = "gdetect" => fetch[r][0].st = "ok"
        /\ (Answered(r) /\ (Answer(r).status = 200 \/ Answer(r).matches # <<>>)) =>
              /\ fetch[r][0].st = "ok"
              /\ FacesAt(fetch[r][0].url) # <<>>
              /\ Len(Answer(r).matches) = Len(FacesAt(fetch[r][0].url))
              /\ refset[r] # <<>>

\* C18 witness: a dataset of three entries of which one needed no fetch, one
\* failed its fetch and one gave a descriptor, and the group fetch under way.
C18_Witness ==
    \E r \in Present :
        /\ Len(Items(r)) = 3
        /\ \E i, j \in 1..3 : fetch[r][i].st = "failed" /\ fetch[r][j] = IdleFetch
        /\ fetch[r][0].st = "inflight"
        /\ pc[r] = "gfetch"

\* Request r starts a fetch attempt or a detection in this step.
StartsWork(r) ==
    \/ \E i \in Idx : fetch'[r][i].attempt > fetch[r][i].attempt
    \/ \E i \in 1..MaxDataset : slot'[r][i].st = "detecting" /\ slot[r][i].st # "detecting"
    \/ pc'[r] = "gdetect" /\ pc[r] # "gdetect"

\* C19: a request is answered at most once, and once its response is sent it
\* sends no second response and starts no further fetch attempt or detection.
C19_AnsweredOnceThenQuiet ==
    [][\A r \in Req :
          /\ Len(resp'[r]) <= 1
          /\ Answered(r) => resp'[r] = resp[r] /\ ~StartsWork(r)]_vars

\* C20: when every external call settles in the end, every request that
\* arrives is answered: the handler reaches its end with a response sent.
C20_EveryRequestAnswered ==
    \A r \in Req : (pc[r] = "new") ~> (pc[r] = "done" /\ Answered(r))

\* C20 witness: a request answered 200 after the fetch of an entry and the
\* fetch of the group image each needed all MAX_RETRIES attempts.
C20_Witness ==
    \E r \in Present :
        /\ pc[r] = "done" /\ Answered(r) /\ Answer(r).status = 200
        /\ fetch[r][0].attempt = MAX_RETRIES
        /\ \E i \in 1..Len(Items(r)) : fetch[r][i].attempt = MAX_RETRIES /\ fetch[r][i].waited > 0

====
